---- MODULE Spec2Model ----
(***************************************************************************)
(* Lead scoring system (Kleo12345/lead_scoring_system).                    *)
(*                                                                         *)
(* The scorers of src/src/scoring, the scraper they consult and the        *)
(* priority calculator, as a state machine.  The state is the loaded       *)
(* configuration, the scorers constructed from it, the scraper (its        *)
(* Selenium driver and the requests it has sent) and the record of the     *)
(* last call: its arguments, the locals the method computed and what it    *)
(* returned.                                                               *)
(*                                                                         *)
(* Python strings are sequences of one-character strings, so that          *)
(* str.lower(), str.split('@') and the substring test `a in b` are         *)
(* computed, not assumed.  A Python value that may be a str, None or a     *)
(* pandas NaN is a record with a "kind" field.  Numbers are integers:      *)
(* weights and totals, floats in the code, are modelled on the integers    *)
(* and the average rating in tenths of a star.                             *)
(***************************************************************************)
EXTENDS Integers, Sequences, FiniteSets, TLC

VARIABLES
    config,           \* the dictionary load_config() returned
    scorers,          \* the scorers constructed so far, each with the settings it stored
    driver,           \* FreeScraper.driver: TRUE when the Edge driver was set up
    http_requests,    \* URLs FreeScraper.session has been asked to GET
    driver_requests,  \* URLs FreeScraper.driver has been asked to load
    scored_leads,     \* the rows of the scored_leads table of the database
    output_csv,       \* data/output/scored_leads.csv: NoFile, or the rows written
    run,              \* the process_leads call in progress: position and locals
    last              \* the last call made on a scorer or on the database from
                      \* outside process_leads: op, arguments, locals, result

vars ==
    <<config, scorers, driver, http_requests, driver_requests, scored_leads,
      output_csv, run, last>>

(***************************************************************************)
(* Python values and strings                                               *)
(***************************************************************************)
Str(s) == [kind |-> "str", s |-> s]
None == [kind |-> "None"]
NaN == [kind |-> "NaN"]

\* isinstance(v, str)
IsStr(v) == v.kind = "str"

\* bool(v): None and "" are falsy, a non-empty str and NaN are truthy
Truthy(v) ==
    CASE v.kind = "None" -> FALSE
      [] v.kind = "NaN" -> TRUE
      [] OTHER -> Len(v.s) > 0

UpperChars ==
    <<"A", "B", "C", "D", "E", "F", "G", "H", "I", "J", "K", "L", "M",
      "N", "O", "P", "Q", "R", "S", "T", "U", "V", "W", "X", "Y", "Z">>

LowerChars ==
    <<"a", "b", "c", "d", "e", "f", "g", "h", "i", "j", "k", "l", "m",
      "n", "o", "p", "q", "r", "s", "t", "u", "v", "w", "x", "y", "z">>

LowerChar(c) ==
    IF \E i \in 1..Len(UpperChars) : UpperChars[i] = c
    THEN LowerChars[CHOOSE i \in 1..Len(UpperChars) : UpperChars[i] = c]
    ELSE c

\* str.lower()
Lower(s) == [i \in 1..Len(s) |-> LowerChar(s[i])]

\* The Python test `sub in s` on two strings
Contains(s, sub) ==
    \E i \in 0..(Len(s) - Len(sub)) : SubSeq(s, i + 1, i + Len(sub)) = sub

\* any(k in s for k in ks)
AnyIn(ks, s) == \E k \in ks : Contains(s, k)

\* dict.get(k, default)
Get(d, k, default) == IF k \in DOMAIN d THEN d[k] ELSE default

\* The dictionaries over a subset of the keys K with values in V
Dicts(K, V) == UNION {[D -> V] : D \in SUBSET K}

RECURSIVE SumOver(_, _)
\* sum(f[k] for k in S)
SumOver(S, f) ==
    IF S = {} THEN 0
    ELSE LET k == CHOOSE x \in S : TRUE
         IN f[k] + SumOver(S \ {k}, f)

(***************************************************************************)
(* Bounds of the model                                                     *)
(***************************************************************************)
MaxSubScore == 3      \* sub-scores handed to the calculator are 0..MaxSubScore
MaxWeight == 2        \* configured weights are 0..MaxWeight
MaxThreshold == 3     \* configured tier thresholds are 1..MaxThreshold
MaxNameLen == 2       \* business names have at most MaxNameLen characters
MaxLocalLen == 2      \* the text before an email's '@' has at most MaxLocalLen characters
MaxReviews == 26      \* a Google Maps page shows 0..MaxReviews reviews
MaxFrameLen == 2      \* a DataFrame handed to the database has at most MaxFrameLen rows
MaxBatchLen == 2      \* the files of one process_leads call hold at most MaxBatchLen rows

(***************************************************************************)
(* Configuration                                                           *)
(***************************************************************************)
\* The score keys the calculator's configurations and inputs are drawn over
ScoreKeys == {"business_size", "contact_quality"}

TierKeys == {"hot", "warm", "cold"}

DefaultWeights == [business_size |-> 1, contact_quality |-> 2]

DefaultTiers == [hot |-> 3, warm |-> 2, cold |-> 1]

DefaultTierDefs ==
    [hot  |-> [name |-> "Hot Lead", value |-> "$3000+"],
     warm |-> [name |-> "Warm Lead", value |-> "$1500"],
     cold |-> [name |-> "Cold Lead", value |-> "$500"],
     low  |-> [name |-> "Low Priority", value |-> "$0"]]

DefaultBusinessSizeScoring ==
    [chain_bonus |-> 15, premium_bonus |-> 10, location_bonus |-> 5]

DefaultContactQualityScoring ==
    [generic_penalty |-> 5, decision_maker_bonus |-> 10,
     personal_domain_bonus |-> 8, business_domain_bonus |-> 3]

DefaultDigitalPresenceScoring ==
    [mobile_responsive |-> 5, seo_basics |-> 4, online_booking |-> 6, modern_tech |-> 3]

DefaultReviewOpportunityScoring ==
    [no_reviews |-> 20, few_reviews |-> 15, moderate_reviews |-> 10, many_reviews |-> 2]

DefaultConfig ==
    [business_size_scoring |-> DefaultBusinessSizeScoring,
     chain_indicators |-> {<<"g">>},
     premium_indicators |-> {<<"e">>},
     contact_quality_scoring |-> DefaultContactQualityScoring,
     negative_email_keywords |-> {<<"i">>},
     decision_maker_keywords |-> {<<"o">>},
     digital_presence_scoring |-> DefaultDigitalPresenceScoring,
     review_opportunity_scoring |-> DefaultReviewOpportunityScoring,
     scoring_weights |-> DefaultWeights,
     tier_thresholds |-> DefaultTiers,
     tier_definitions |-> DefaultTierDefs]

\* PriorityCalculator.__init__ refuses an empty (falsy) section
WeightConfigs == Dicts(ScoreKeys, 0..MaxWeight) \ {<<>>}

TierConfigs == Dicts(TierKeys, 1..MaxThreshold) \ {<<>>}

(***************************************************************************)
(* Construction of the scorers                                             *)
(***************************************************************************)
\* The KeyError of config[section] on a missing section, of
\* scoring_config[key] on a missing key and of PriorityCalculator.__init__
KeyError == [raised |-> TRUE, error |-> "KeyError"]

\* A mutant of BusinessMetricsScorer: a missing section is replaced by an
\* empty one
BusinessMetricsScorer_Defaulting(cfg) ==
    [raised |-> FALSE,
     self |-> [scoring_config |-> Get(cfg, "business_size_scoring", <<>>),
               chain_indicators |-> Get(cfg, "chain_indicators", {}),
               premium_indicators |-> Get(cfg, "premium_indicators", {})]]

\* BusinessMetricsScorer.__init__(config)
BusinessMetricsScorer(cfg) ==
    IF {"business_size_scoring", "chain_indicators", "premium_indicators"}
           \subseteq DOMAIN cfg
    THEN [raised |-> FALSE,
          self |-> [scoring_config |-> cfg.business_size_scoring,
                    chain_indicators |-> cfg.chain_indicators,
                    premium_indicators |-> cfg.premium_indicators]]
    ELSE KeyError

\* DigitalPresenceScorer.__init__(scraper, config)
DigitalPresenceScorer(cfg) ==
    IF "digital_presence_scoring" \in DOMAIN cfg
    THEN [raised |-> FALSE, self |-> [config |-> cfg.digital_presence_scoring]]
    ELSE KeyError

\* EngagementScorer.__init__(scraper, config)
EngagementScorer(cfg) ==
    IF "review_opportunity_scoring" \in DOMAIN cfg
    THEN [raised |-> FALSE, self |-> [config |-> cfg.review_opportunity_scoring]]
    ELSE KeyError

\* ContactQualityScorer.__init__(config)
ContactQualityScorer(cfg) ==
    IF {"contact_quality_scoring", "negative_email_keywords", "decision_maker_keywords"}
           \subseteq DOMAIN cfg
    THEN [raised |-> FALSE,
          self |-> [scoring_config |-> cfg.contact_quality_scoring,
                    negative_keywords |-> cfg.negative_email_keywords,
                    dm_keywords |-> cfg.decision_maker_keywords]]
    ELSE KeyError

\* self.weights = config.get('scoring_weights'); if not self.weights: the
\* section is missing (None) or an empty dictionary
NotSection(cfg, section) == section \notin DOMAIN cfg \/ DOMAIN cfg[section] = {}

\* A mutant of PriorityCalculator: only a missing section raises
PriorityCalculator_MissingOnly(cfg) ==
    IF {"scoring_weights", "tier_thresholds", "tier_definitions"} \subseteq DOMAIN cfg
    THEN [raised |-> FALSE,
          self |-> [weights |-> cfg.scoring_weights,
                    tiers |-> cfg.tier_thresholds,
                    tier_defs |-> cfg.tier_definitions]]
    ELSE KeyError

\* PriorityCalculator.__init__(config)
PriorityCalculator(cfg) ==
    IF \/ NotSection(cfg, "scoring_weights")
       \/ NotSection(cfg, "tier_thresholds")
       \/ NotSection(cfg, "tier_definitions")
    THEN KeyError
    ELSE [raised |-> FALSE,
          self |-> [weights |-> cfg.scoring_weights,
                    tiers |-> cfg.tier_thresholds,
                    tier_defs |-> cfg.tier_definitions]]

\* The scorers of a pipeline constructed from a complete configuration
PipelineScorers(cfg) ==
    [business_scorer |-> BusinessMetricsScorer(cfg).self,
     digital_scorer |-> DigitalPresenceScorer(cfg).self,
     engagement_scorer |-> EngagementScorer(cfg).self,
     contact_scorer |-> ContactQualityScorer(cfg).self,
     calculator |-> PriorityCalculator(cfg).self]

\* LeadScoringPipeline.__init__ has returned: process_leads, and with it
\* every scorer, can be called
PipelineReady == DOMAIN scorers = DOMAIN PipelineScorers(DefaultConfig)

(***************************************************************************)
(* PriorityCalculator                                                      *)
(***************************************************************************)
\* The threshold .get() falls back to when a tier has none
DefaultThreshold == 999

\* A mutant of WeightedTotal: iterates over the sub-scores, a key without a
\* weight counting once
WeightedTotal_OverScores(scores, weights) ==
    SumOver(DOMAIN scores, [k \in DOMAIN scores |-> scores[k] * Get(weights, k, 1)])

\* total = sum(scores.get(key, 0) * self.weights.get(key, 0) for key in self.weights)
WeightedTotal(scores, weights) ==
    SumOver(DOMAIN weights,
            [k \in DOMAIN weights |-> Get(scores, k, 0) * Get(weights, k, 0)])

\* A mutant of TierKey: the hot bound is exclusive
TierKey_Exclusive(total, tiers) ==
    IF total > Get(tiers, "hot", DefaultThreshold) THEN "hot"
    ELSE IF total >= Get(tiers, "warm", DefaultThreshold) THEN "warm"
    ELSE IF total >= Get(tiers, "cold", DefaultThreshold) THEN "cold"
    ELSE "low"

\* A mutant of TierKey: the lowest threshold met wins
TierKey_ColdFirst(total, tiers) ==
    IF total >= Get(tiers, "cold", DefaultThreshold) THEN "cold"
    ELSE IF total >= Get(tiers, "warm", DefaultThreshold) THEN "warm"
    ELSE IF total >= Get(tiers, "hot", DefaultThreshold) THEN "hot"
    ELSE "low"

\* A mutant of TierKey: the warm tier is given to the totals equal to its
\* threshold only
TierKey_WarmExact(total, tiers) ==
    IF total >= Get(tiers, "hot", DefaultThreshold) THEN "hot"
    ELSE IF total = Get(tiers, "warm", DefaultThreshold) THEN "warm"
    ELSE IF total >= Get(tiers, "cold", DefaultThreshold) THEN "cold"
    ELSE "low"

\* The if/elif chain that picks tier_key
TierKey(total, tiers) ==
    IF total >= Get(tiers, "hot", DefaultThreshold) THEN "hot"
    ELSE IF total >= Get(tiers, "warm", DefaultThreshold) THEN "warm"
    ELSE IF total >= Get(tiers, "cold", DefaultThreshold) THEN "cold"
    ELSE "low"

\* A mutant of calculate_final_score: self.tier_defs[tier_key] in place of
\* self.tier_defs.get(tier_key, {})
calculate_final_score_IndexDefs(weights, tiers, tier_defs, scores) ==
    LET total == WeightedTotal(scores, weights)
        tier_key == TierKey(total, tiers)
    IN IF tier_key \notin DOMAIN tier_defs THEN KeyError
       ELSE [raised |-> FALSE,
             total |-> total,
             tier_key |-> tier_key,
             tier_name |-> Get(tier_defs[tier_key], "name", "Undefined Tier"),
             estimated_value |-> Get(tier_defs[tier_key], "value", "N/A")]

\* PriorityCalculator.calculate_final_score(scores), with its local tier_key
calculate_final_score(weights, tiers, tier_defs, scores) ==
    LET total == WeightedTotal(scores, weights)
        tier_key == TierKey(total, tiers)
        tier_info == Get(tier_defs, tier_key, <<>>)
    IN [raised |-> FALSE,
        total |-> total,
        tier_key |-> tier_key,
        tier_name |-> Get(tier_info, "name", "Undefined Tier"),
        estimated_value |-> Get(tier_info, "value", "N/A")]

ScoreInputs == Dicts(ScoreKeys, 0..MaxSubScore)

\* A mutant of ScoresAfterCall: the sum uses scores.setdefault(key, 0)
ScoresAfterCall_SetDefault(weights, scores) ==
    [k \in DOMAIN scores \cup DOMAIN weights |-> Get(scores, k, 0)]

\* The mapping the caller passed, after calculate_final_score: the sum reads
\* it with scores.get and nothing is assigned to it
ScoresAfterCall(weights, scores) == scores

CalculateFinalScore ==
    /\ PipelineReady
    /\ \E scores \in ScoreInputs :
        /\ last' = [op |-> "calculate_final_score",
                    scores |-> scores,
                    scores_after |-> ScoresAfterCall(scorers.calculator.weights,
                                                     scores),
                    ret |-> calculate_final_score(scorers.calculator.weights,
                                                  scorers.calculator.tiers,
                                                  scorers.calculator.tier_defs,
                                                  scores)]
        /\ UNCHANGED <<scored_leads, output_csv, run, config, scorers, driver, http_requests, driver_requests>>

(***************************************************************************)
(* Specification of the calculator: every configuration of weights and     *)
(* thresholds, every sub-score mapping                                     *)
(***************************************************************************)
NoCall == [op |-> "none"]

\* No process_leads call is in progress
Idle == [pc |-> "idle"]

\* data/output/scored_leads.csv has not been written
NoFile == [written |-> FALSE]

InitCalc ==
    /\ config \in {[DefaultConfig EXCEPT !.scoring_weights = w, !.tier_thresholds = t] :
                       w \in WeightConfigs, t \in TierConfigs}
    /\ scorers = PipelineScorers(config)
    /\ scored_leads = <<>>
    /\ output_csv = NoFile
    /\ run = Idle
    /\ driver = TRUE
    /\ http_requests = {}
    /\ driver_requests = {}
    /\ last = NoCall

NextCalc == CalculateFinalScore

SpecCalc == InitCalc /\ [][NextCalc]_vars

(***************************************************************************)
(* Specification of the calculator under every tier_definitions: each of   *)
(* the four tier keys has a complete definition, one without a value, one  *)
(* without a name, or none                                                 *)
(***************************************************************************)
TierDefinitionPool ==
    {[name |-> "Hot Lead", value |-> "$3000+"], [name |-> "Warm Lead"], [value |-> "$500"]}

TierDefConfigs == Dicts(TierKeys \cup {"low"}, TierDefinitionPool) \ {<<>>}

InitTierDefs ==
    /\ config \in {[DefaultConfig EXCEPT !.tier_definitions = d] : d \in TierDefConfigs}
    /\ scorers = PipelineScorers(config)
    /\ scored_leads = <<>>
    /\ output_csv = NoFile
    /\ run = Idle
    /\ driver = TRUE
    /\ http_requests = {}
    /\ driver_requests = {}
    /\ last = NoCall

NextTierDefs == CalculateFinalScore

SpecTierDefs == InitTierDefs /\ [][NextTierDefs]_vars

(***************************************************************************)
(* BusinessMetricsScorer                                                   *)
(***************************************************************************)
Raised == [raised |-> TRUE]

\* The scraper was not asked, or raised before it returned
NoData == [fetched |-> FALSE]

\* x.lower() on a value that is no str raises AttributeError
LowerRaises(v) == ~IsStr(v)

\* any(ind in business_name.lower() for ind in indicators): with no indicator
\* the generator body, and so business_name.lower(), is never evaluated
AnyIndicatorRaises(indicators, business_name) ==
    indicators # {} /\ LowerRaises(business_name)

AnyIndicator(indicators, business_name) ==
    AnyIn(indicators, Lower(business_name.s))

Suite == <<"s", "u", "i", "t", "e">>

Plaza == <<"p", "l", "a", "z", "a">>

\* A mutant of LocationMatches: the address is searched as it is written
LocationMatches_CaseSensitive(address) ==
    /\ Truthy(address)
    /\ \/ Contains(address.s, Suite)
       \/ Contains(address.s, Plaza)

\* address and ('suite' in address.lower() or 'plaza' in address.lower())
LocationMatches(address) ==
    /\ Truthy(address)
    /\ \/ Contains(Lower(address.s), Suite)
       \/ Contains(Lower(address.s), Plaza)

\* BusinessMetricsScorer.score_business_size(business_name, address, zip_code);
\* zip_code is not read.  self.scoring_config['chain_bonus'] and the like
\* raise KeyError when the bonus is read and the section does not hold it
score_business_size(scoring_config, chain_indicators, premium_indicators, business_name, address) ==
    IF \/ AnyIndicatorRaises(chain_indicators, business_name)
       \/ AnyIndicatorRaises(premium_indicators, business_name)
       \/ (Truthy(address) /\ LowerRaises(address))
    THEN Raised
    ELSE LET chain == chain_indicators # {} /\ AnyIndicator(chain_indicators, business_name)
             premium == premium_indicators # {}
                            /\ AnyIndicator(premium_indicators, business_name)
             location == LocationMatches(address)
         IN IF \/ chain /\ "chain_bonus" \notin DOMAIN scoring_config
               \/ premium /\ "premium_bonus" \notin DOMAIN scoring_config
               \/ location /\ "location_bonus" \notin DOMAIN scoring_config
            THEN KeyError
            ELSE LET score1 == IF chain THEN scoring_config.chain_bonus ELSE 0
                     category1 == IF chain THEN "Chain" ELSE "Small"
                     score2 == IF premium
                               THEN score1 + scoring_config.premium_bonus ELSE score1
                     category2 == IF premium THEN "Premium" ELSE category1
                     score3 == IF location
                               THEN score2 + scoring_config.location_bonus ELSE score2
                 IN [raised |-> FALSE, score |-> score3, size_category |-> category2]

\* Business names: every string of at most MaxNameLen of these characters
NameChars == {"g", "G", "e"}

NameStrings == UNION {[1..n -> NameChars] : n \in 0..MaxNameLen}

\* The business of the worked example: "Gold's Gym Suite 200"
GoldsGymSuite200 ==
    <<"G", "o", "l", "d", "'", "s", " ", "G", "y", "m", " ",
      "S", "u", "i", "t", "e", " ", "2", "0", "0">>

BusinessNames == {Str(s) : s \in NameStrings \cup {GoldsGymSuite200}} \cup {None, NaN}

Addresses ==
    {None, NaN, Str(<<>>),
     Str(<<"1", " ", "M", "a", "i", "n">>),
     Str(<<"S", "u", "i", "t", "e", " ", "2">>),
     Str(<<"P", "L", "A", "Z", "A">>)}

ChainIndicatorPool == {<<"g">>, <<"G">>}

PremiumIndicatorPool == {<<"e">>, <<"E">>}

BusinessSizeScorings ==
    {DefaultBusinessSizeScoring,
     [chain_bonus |-> 1, premium_bonus |-> 2, location_bonus |-> 4]}

\* The configuration of the worked example: bonuses 15, 10 and 5, the chain
\* indicator "gold's gym", a premium indicator the name does not contain
GoldsGym == <<"g", "o", "l", "d", "'", "s", " ", "g", "y", "m">>

Elite == <<"e", "l", "i", "t", "e">>

ExampleConfig ==
    [DefaultConfig EXCEPT !.business_size_scoring = DefaultBusinessSizeScoring,
                          !.chain_indicators = {GoldsGym},
                          !.premium_indicators = {Elite}]

ScoreBusinessSize ==
    /\ PipelineReady
    /\ \E business_name \in BusinessNames, address \in Addresses :
        /\ last' = [op |-> "score_business_size",
                    business_name |-> business_name,
                    address |-> address,
                    ret |-> score_business_size(scorers.business_scorer.scoring_config,
                                                scorers.business_scorer.chain_indicators,
                                                scorers.business_scorer.premium_indicators,
                                                business_name, address)]
        /\ UNCHANGED <<scored_leads, output_csv, run, config, scorers, driver, http_requests, driver_requests>>

InitBusiness ==
    /\ config \in {[DefaultConfig EXCEPT !.business_size_scoring = b,
                                         !.chain_indicators = c,
                                         !.premium_indicators = p] :
                       b \in BusinessSizeScorings,
                       c \in SUBSET ChainIndicatorPool,
                       p \in SUBSET PremiumIndicatorPool}
                  \cup {ExampleConfig}
    /\ scorers = PipelineScorers(config)
    /\ scored_leads = <<>>
    /\ output_csv = NoFile
    /\ run = Idle
    /\ driver = TRUE
    /\ http_requests = {}
    /\ driver_requests = {}
    /\ last = NoCall

NextBusiness == ScoreBusinessSize

SpecBusiness == InitBusiness /\ [][NextBusiness]_vars

(***************************************************************************)
(* ContactQualityScorer                                                    *)
(***************************************************************************)
At == "@"

AtPositions(s) == {i \in 1..Len(s) : s[i] = At}

Min(S) == CHOOSE x \in S : \A y \in S : x <= y

Max(S) == CHOOSE x \in S : \A y \in S : x >= y

\* email.split('@')[0]
SplitFirst(s) ==
    IF AtPositions(s) = {} THEN s ELSE SubSeq(s, 1, Min(AtPositions(s)) - 1)

\* email.split('@')[-1]
SplitLast(s) ==
    IF AtPositions(s) = {} THEN s ELSE SubSeq(s, Max(AtPositions(s)) + 1, Len(s))

GmailCom == <<"g", "m", "a", "i", "l", ".", "c", "o", "m">>

YahooCom == <<"y", "a", "h", "o", "o", ".", "c", "o", "m">>

HotmailCom == <<"h", "o", "t", "m", "a", "i", "l", ".", "c", "o", "m">>

OutlookCom == <<"o", "u", "t", "l", "o", "o", "k", ".", "c", "o", "m">>

\* self.personal_domains
personal_domains == {GmailCom, YahooCom, HotmailCom, OutlookCom}

\* email_local_part = email.split('@')[0].lower()
email_local_part(email) == Lower(SplitFirst(email.s))

\* email_domain = email.split('@')[-1].lower()
email_domain(email) == Lower(SplitLast(email.s))

\* A mutant of ContactQualityScorer_score: the penalty is added to the
\* bonuses instead of replacing them
ContactQualityScorer_score_Additive(scoring_config, negative_keywords, dm_keywords, email) ==
    IF ~Truthy(email) \/ ~IsStr(email) THEN 0
    ELSE (IF AnyIn(negative_keywords, email_local_part(email))
          THEN scoring_config.generic_penalty ELSE 0)
         + (IF AnyIn(dm_keywords, email_local_part(email))
            THEN scoring_config.decision_maker_bonus ELSE 0)
         + (IF email_domain(email) \in personal_domains
            THEN scoring_config.personal_domain_bonus
            ELSE scoring_config.business_domain_bonus)

\* A mutant of ContactQualityScorer_score: the domain bonus is an
\* alternative to the decision-maker bonus instead of an addition to it
ContactQualityScorer_score_DomainElse(scoring_config, negative_keywords, dm_keywords, email) ==
    IF ~Truthy(email) \/ ~IsStr(email) THEN 0
    ELSE IF AnyIn(negative_keywords, email_local_part(email))
    THEN scoring_config.generic_penalty
    ELSE IF AnyIn(dm_keywords, email_local_part(email))
    THEN scoring_config.decision_maker_bonus
    ELSE IF email_domain(email) \in personal_domains
    THEN scoring_config.personal_domain_bonus
    ELSE scoring_config.business_domain_bonus

\* ContactQualityScorer.score(email)
ContactQualityScorer_score(scoring_config, negative_keywords, dm_keywords, email) ==
    IF ~Truthy(email) \/ ~IsStr(email) THEN 0
    ELSE IF AnyIn(negative_keywords, email_local_part(email))
    THEN scoring_config.generic_penalty
    ELSE (IF AnyIn(dm_keywords, email_local_part(email))
          THEN scoring_config.decision_maker_bonus ELSE 0)
         + (IF email_domain(email) \in personal_domains
            THEN scoring_config.personal_domain_bonus
            ELSE scoring_config.business_domain_bonus)

\* Emails: a local part of at most MaxLocalLen of these characters, alone,
\* followed by '@' and a domain, or with a second '@' before the domain
LocalChars == {"i", "I", "o"}

LocalStrings == UNION {[1..n -> LocalChars] : n \in 0..MaxLocalLen}

SmallGymCom == <<"s", "m", "a", "l", "l", "g", "y", "m", ".", "c", "o", "m">>

EmailDomains == {GmailCom, <<"G", "m", "a", "i", "l", ".", "C", "O", "M">>, SmallGymCom}

EmailStrings ==
    LocalStrings
    \cup {l \o <<At>> \o d : l \in LocalStrings, d \in EmailDomains}
    \cup {l \o <<At, "o", At>> \o GmailCom : l \in LocalStrings}

Emails == {Str(s) : s \in EmailStrings} \cup {None, NaN}

NegativeKeywordPool == {<<"i">>, <<"I">>}

DecisionMakerKeywordPool == {<<"o">>, <<"i", "o">>}

ContactQualityScorings ==
    {DefaultContactQualityScoring,
     [generic_penalty |-> -5, decision_maker_bonus |-> 1,
      personal_domain_bonus |-> 2, business_domain_bonus |-> 4]}

ContactScore ==
    /\ PipelineReady
    /\ \E email \in Emails :
        /\ last' = [op |-> "score",
                    email |-> email,
                    ret |-> [raised |-> FALSE,
                             score |-> ContactQualityScorer_score(
                                           scorers.contact_scorer.scoring_config,
                                           scorers.contact_scorer.negative_keywords,
                                           scorers.contact_scorer.dm_keywords,
                                           email)]]
        /\ UNCHANGED <<scored_leads, output_csv, run, config, scorers, driver, http_requests, driver_requests>>

InitContact ==
    /\ config \in {[DefaultConfig EXCEPT !.contact_quality_scoring = q,
                                         !.negative_email_keywords = n,
                                         !.decision_maker_keywords = d] :
                       q \in ContactQualityScorings,
                       n \in SUBSET NegativeKeywordPool,
                       d \in SUBSET DecisionMakerKeywordPool}
    /\ scorers = PipelineScorers(config)
    /\ scored_leads = <<>>
    /\ output_csv = NoFile
    /\ run = Idle
    /\ driver = TRUE
    /\ http_requests = {}
    /\ driver_requests = {}
    /\ last = NoCall

NextContact == ContactScore

SpecContact == InitContact /\ [][NextContact]_vars

(***************************************************************************)
(* FreeScraper                                                             *)
(***************************************************************************)
HttpsScheme == <<"h", "t", "t", "p", "s", ":", "/", "/">>

HttpScheme == <<"h", "t", "t", "p", ":", "/", "/">>

MapsHost == <<"m", "a", "p", "s", ".", "g", "o", "o", "g", "l", "e", ".", "c", "o", "m">>

GymHost == <<"g", "y", "m", ".", "c", "o", "m">>

\* url.startswith(prefix)
StartsWith(s, prefix) == Len(s) >= Len(prefix) /\ SubSeq(s, 1, Len(prefix)) = prefix

\* data = { 'review_count': 0, 'average_rating': 0.0 }
MapsDefaults == [review_count |-> 0, average_rating |-> 0]

\* The ratings a page shows, in tenths of a star; 0 when no rating is found
Ratings == {0, 38, 45}

\* not self.driver or not gmaps_url or 'maps.google.com' not in gmaps_url
MapsScrapeSkipped(drv, gmaps_url) ==
    \/ ~drv
    \/ ~Truthy(gmaps_url)
    \/ (IsStr(gmaps_url) /\ ~Contains(gmaps_url.s, MapsHost))

\* 'maps.google.com' in gmaps_url raises TypeError on a float
MapsScrapeRaises(drv, gmaps_url) == drv /\ Truthy(gmaps_url) /\ ~IsStr(gmaps_url)

\* FreeScraper.scrape_google_maps_data(gmaps_url): what it may return.  A
\* failed page load, or a count that int() refuses, leaves the defaults; the
\* review count and the rating are found, or not, independently
scrape_google_maps_data(drv, gmaps_url) ==
    IF MapsScrapeSkipped(drv, gmaps_url) THEN {MapsDefaults}
    ELSE {MapsDefaults}
         \cup {[review_count |-> c, average_rating |-> r] :
                   c \in 0..MaxReviews, r \in Ratings}

\* 'is_accessible': False and the other signals at their defaults
WebsiteDefaults(url) ==
    [is_accessible |-> FALSE,
     has_ssl |-> StartsWith(url.s, HttpsScheme),
     is_mobile_friendly |-> FALSE,
     has_title_and_desc |-> FALSE,
     has_booking_feature |-> FALSE,
     design_is_modern |-> FALSE,
     design_is_outdated |-> FALSE,
     has_images |-> FALSE]

\* url.startswith('https://') raises AttributeError on a value that is no str
WebsiteScrapeRaises(url) == ~IsStr(url)

\* FreeScraper.scrape_website_data(url): what it may return.  A failed GET
\* leaves the defaults; after a successful one each signal is what the page
\* shows
scrape_website_data(url) ==
    {WebsiteDefaults(url)}
    \cup {[is_accessible |-> TRUE,
           has_ssl |-> StartsWith(url.s, HttpsScheme),
           is_mobile_friendly |-> m,
           has_title_and_desc |-> t,
           has_booking_feature |-> b,
           design_is_modern |-> dm,
           design_is_outdated |-> do,
           has_images |-> im] :
              m \in BOOLEAN, t \in BOOLEAN, b \in BOOLEAN,
              dm \in BOOLEAN, do \in BOOLEAN, im \in BOOLEAN}

(***************************************************************************)
(* EngagementScorer                                                        *)
(***************************************************************************)
\* elif review_count < 10
FewReviewsLimit == 10

\* elif review_count < 25
ManyReviewsLimit == 25

\* A mutant of analyze_review_opportunity: the failure override is left out
analyze_review_opportunity_NoOverride(cfg, scraped_data, gmaps_url) ==
    LET review_count == scraped_data.review_count
    IN [raised |-> FALSE,
        score |-> IF review_count = 0 THEN cfg.no_reviews
                  ELSE IF review_count < FewReviewsLimit THEN cfg.few_reviews
                  ELSE IF review_count < ManyReviewsLimit THEN cfg.moderate_reviews
                  ELSE cfg.many_reviews,
        opportunities |->
            [needs_review_campaign |-> review_count < ManyReviewsLimit,
             review_count |-> review_count,
             average_rating |-> scraped_data.average_rating]]

\* A mutant of analyze_review_opportunity: the moderate bucket ends at
\* review_count <= 25
analyze_review_opportunity_Inclusive(cfg, scraped_data, gmaps_url) ==
    LET review_count == scraped_data.review_count
        failed == review_count = 0 /\ scraped_data.average_rating = 0 /\ Truthy(gmaps_url)
    IN [raised |-> FALSE,
        score |-> IF failed THEN cfg.moderate_reviews
                  ELSE IF review_count = 0 THEN cfg.no_reviews
                  ELSE IF review_count < FewReviewsLimit THEN cfg.few_reviews
                  ELSE IF review_count <= ManyReviewsLimit THEN cfg.moderate_reviews
                  ELSE cfg.many_reviews,
        opportunities |->
            [needs_review_campaign |-> review_count <= ManyReviewsLimit,
             review_count |-> review_count,
             average_rating |-> scraped_data.average_rating]]

\* A mutant of analyze_review_opportunity: the few bucket ends at
\* review_count <= 10
analyze_review_opportunity_FewInclusive(cfg, scraped_data, gmaps_url) ==
    LET review_count == scraped_data.review_count
        failed == review_count = 0 /\ scraped_data.average_rating = 0 /\ Truthy(gmaps_url)
    IN [raised |-> FALSE,
        score |-> IF failed THEN cfg.moderate_reviews
                  ELSE IF review_count = 0 THEN cfg.no_reviews
                  ELSE IF review_count <= FewReviewsLimit THEN cfg.few_reviews
                  ELSE IF review_count < ManyReviewsLimit THEN cfg.moderate_reviews
                  ELSE cfg.many_reviews,
        opportunities |->
            [needs_review_campaign |-> review_count < ManyReviewsLimit,
             review_count |-> review_count,
             average_rating |-> scraped_data.average_rating]]

\* A mutant of analyze_review_opportunity: the override does not look at
\* the URL
analyze_review_opportunity_OverrideAlways(cfg, scraped_data, gmaps_url) ==
    LET review_count == scraped_data.review_count
        score1 == IF review_count = 0 THEN cfg.no_reviews
                  ELSE IF review_count < FewReviewsLimit THEN cfg.few_reviews
                  ELSE IF review_count < ManyReviewsLimit THEN cfg.moderate_reviews
                  ELSE cfg.many_reviews
        needs1 == review_count = 0 \/ review_count < FewReviewsLimit
                      \/ review_count < ManyReviewsLimit
        failed == review_count = 0 /\ scraped_data.average_rating = 0
    IN [raised |-> FALSE,
        score |-> IF failed THEN cfg.moderate_reviews ELSE score1,
        opportunities |->
            [needs_review_campaign |-> IF failed THEN TRUE ELSE needs1,
             review_count |-> review_count,
             average_rating |-> scraped_data.average_rating]]

\* EngagementScorer.analyze_review_opportunity(gmaps_url), from the data the
\* scraper returned
analyze_review_opportunity(cfg, scraped_data, gmaps_url) ==
    LET review_count == scraped_data.review_count
        score1 == IF review_count = 0 THEN cfg.no_reviews
                  ELSE IF review_count < FewReviewsLimit THEN cfg.few_reviews
                  ELSE IF review_count < ManyReviewsLimit THEN cfg.moderate_reviews
                  ELSE cfg.many_reviews
        needs1 == review_count = 0 \/ review_count < FewReviewsLimit
                      \/ review_count < ManyReviewsLimit
        failed == review_count = 0 /\ scraped_data.average_rating = 0 /\ Truthy(gmaps_url)
    IN [raised |-> FALSE,
        score |-> IF failed THEN cfg.moderate_reviews ELSE score1,
        opportunities |->
            [needs_review_campaign |-> IF failed THEN TRUE ELSE needs1,
             review_count |-> review_count,
             average_rating |-> scraped_data.average_rating]]

MapsUrls ==
    {None, NaN, Str(<<>>),
     Str(HttpsScheme \o MapsHost \o <<"/", "x">>),
     Str(HttpsScheme \o GymHost)}

ReviewOpportunityScorings ==
    {DefaultReviewOpportunityScoring,
     [no_reviews |-> 1, few_reviews |-> 2, moderate_reviews |-> 3, many_reviews |-> 4],
     [no_reviews |-> 0, few_reviews |-> 7, moderate_reviews |-> 7, many_reviews |-> 9]}

\* The scraper refuses the URL (or has no driver) and returns the defaults
\* without loading a page, or raises on a URL that is no str
AnalyzeReviewOpportunitySkipped ==
    /\ PipelineReady
    /\ \E gmaps_url \in MapsUrls :
        /\ MapsScrapeSkipped(driver, gmaps_url) \/ MapsScrapeRaises(driver, gmaps_url)
        /\ last' = [op |-> "analyze_review_opportunity",
                    gmaps_url |-> gmaps_url,
                    scraped_data |-> IF MapsScrapeRaises(driver, gmaps_url)
                                     THEN NoData ELSE MapsDefaults,
                    ret |-> IF MapsScrapeRaises(driver, gmaps_url) THEN Raised
                            ELSE analyze_review_opportunity(
                                     scorers.engagement_scorer.config,
                                     MapsDefaults, gmaps_url)]
        /\ UNCHANGED <<scored_leads, output_csv, run, config, scorers, driver, http_requests, driver_requests>>

\* The scraper loads the page with the driver
AnalyzeReviewOpportunityScraped ==
    /\ PipelineReady
    /\ \E gmaps_url \in MapsUrls :
        /\ ~MapsScrapeSkipped(driver, gmaps_url)
        /\ ~MapsScrapeRaises(driver, gmaps_url)
        /\ \E scraped_data \in scrape_google_maps_data(driver, gmaps_url) :
               last' = [op |-> "analyze_review_opportunity",
                        gmaps_url |-> gmaps_url,
                        scraped_data |-> scraped_data,
                        ret |-> analyze_review_opportunity(
                                    scorers.engagement_scorer.config,
                                    scraped_data, gmaps_url)]
        /\ driver_requests' = driver_requests \cup {gmaps_url}
        /\ UNCHANGED <<scored_leads, output_csv, run, config, scorers, driver, http_requests>>

InitEngagement ==
    /\ config \in {[DefaultConfig EXCEPT !.review_opportunity_scoring = r] :
                       r \in ReviewOpportunityScorings}
    /\ scorers = PipelineScorers(config)
    /\ scored_leads = <<>>
    /\ output_csv = NoFile
    /\ run = Idle
    /\ driver \in BOOLEAN
    /\ http_requests = {}
    /\ driver_requests = {}
    /\ last = NoCall

NextEngagement == AnalyzeReviewOpportunitySkipped \/ AnalyzeReviewOpportunityScraped

SpecEngagement == InitEngagement /\ [][NextEngagement]_vars

(***************************************************************************)
(* DigitalPresenceScorer                                                   *)
(***************************************************************************)
NoOpportunities ==
    [needs_redesign |-> FALSE,
     needs_mobile_optimization |-> FALSE,
     needs_seo |-> FALSE,
     missing_online_booking |-> FALSE]

\* A mutant of AccessibleSiteQuality: a site with a title and description
\* earns seo_basics and is flagged needs_seo all the same
AccessibleSiteQuality_SeoFlagAlways(cfg, scraped_data) ==
    [raised |-> FALSE,
     score |-> (IF scraped_data.is_mobile_friendly THEN cfg.mobile_responsive ELSE 0)
               + (IF scraped_data.has_title_and_desc THEN cfg.seo_basics ELSE 0)
               + (IF scraped_data.has_booking_feature THEN cfg.online_booking ELSE 0)
               + (IF ~scraped_data.design_is_outdated /\ scraped_data.design_is_modern
                  THEN cfg.modern_tech ELSE 0),
     opportunities |->
         [needs_redesign |-> scraped_data.design_is_outdated,
          needs_mobile_optimization |-> ~scraped_data.is_mobile_friendly,
          needs_seo |-> TRUE,
          missing_online_booking |-> ~scraped_data.has_booking_feature]]

\* A mutant of AccessibleSiteQuality: "if design_is_modern" in place of
\* "elif", so that an outdated design with modern signals earns modern_tech
AccessibleSiteQuality_ModernIf(cfg, scraped_data) ==
    [raised |-> FALSE,
     score |-> (IF scraped_data.is_mobile_friendly THEN cfg.mobile_responsive ELSE 0)
               + (IF scraped_data.has_title_and_desc THEN cfg.seo_basics ELSE 0)
               + (IF scraped_data.has_booking_feature THEN cfg.online_booking ELSE 0)
               + (IF scraped_data.design_is_modern THEN cfg.modern_tech ELSE 0),
     opportunities |->
         [needs_redesign |-> scraped_data.design_is_outdated,
          needs_mobile_optimization |-> ~scraped_data.is_mobile_friendly,
          needs_seo |-> ~scraped_data.has_title_and_desc,
          missing_online_booking |-> ~scraped_data.has_booking_feature]]

\* The scoring of an accessible site
AccessibleSiteQuality(cfg, scraped_data) ==
    [raised |-> FALSE,
     score |-> (IF scraped_data.is_mobile_friendly THEN cfg.mobile_responsive ELSE 0)
               + (IF scraped_data.has_title_and_desc THEN cfg.seo_basics ELSE 0)
               + (IF scraped_data.has_booking_feature THEN cfg.online_booking ELSE 0)
               + (IF ~scraped_data.design_is_outdated /\ scraped_data.design_is_modern
                  THEN cfg.modern_tech ELSE 0),
     opportunities |->
         [needs_redesign |-> scraped_data.design_is_outdated,
          needs_mobile_optimization |-> ~scraped_data.is_mobile_friendly,
          needs_seo |-> ~scraped_data.has_title_and_desc,
          missing_online_booking |-> ~scraped_data.has_booking_feature]]

\* A mutant of SiteQuality: an inaccessible site is scored like any other
SiteQuality_NoShortCircuit(cfg, scraped_data) ==
    LET r == AccessibleSiteQuality(cfg, scraped_data)
    IN IF scraped_data.is_accessible THEN r
       ELSE [r EXCEPT !.opportunities.needs_redesign = TRUE]

\* score_website_quality after the scraper has returned: the short circuit
\* on an inaccessible site, then the accumulation
SiteQuality(cfg, scraped_data) ==
    IF ~scraped_data.is_accessible
    THEN [raised |-> FALSE,
          score |-> 2,
          opportunities |-> [NoOpportunities EXCEPT !.needs_redesign = TRUE]]
    ELSE AccessibleSiteQuality(cfg, scraped_data)

\* A mutant of UrlMissing: the scraper is consulted for every URL
UrlMissing_Never(url) == FALSE

\* if not url
UrlMissing(url) == ~Truthy(url)

\* return 0, {'needs_redesign': True}
NoWebsiteQuality ==
    [raised |-> FALSE, score |-> 0, opportunities |-> [needs_redesign |-> TRUE]]

\* A mutant of score_website_quality: a site requested before is not
\* scored again
score_website_quality_Cached(cfg, url, scraped_data) ==
    IF UrlMissing(url) \/ url \in http_requests
    THEN NoWebsiteQuality ELSE SiteQuality(cfg, scraped_data)

\* DigitalPresenceScorer.score_website_quality(url), from the data the
\* scraper returned when it was asked
score_website_quality(cfg, url, scraped_data) ==
    IF UrlMissing(url) THEN NoWebsiteQuality ELSE SiteQuality(cfg, scraped_data)

WebsiteUrls ==
    {None, NaN, Str(<<>>), Str(HttpsScheme \o GymHost), Str(HttpScheme \o GymHost)}

DigitalPresenceScorings ==
    {DefaultDigitalPresenceScoring,
     [mobile_responsive |-> 1, seo_basics |-> 2, online_booking |-> 4, modern_tech |-> 8]}

\* DigitalPresenceScorer.score_website_quality(url) for a lead without a
\* website: it returns before the scraper is called
ScoreWebsiteQualityNoUrl ==
    /\ PipelineReady
    /\ \E url \in WebsiteUrls :
        /\ UrlMissing(url)
        /\ last' = [op |-> "score_website_quality",
                    url |-> url,
                    scraped_data |-> NoData,
                    ret |-> score_website_quality(scorers.digital_scorer.config,
                                                  url, NoData)]
        /\ UNCHANGED <<scored_leads, output_csv, run, config, scorers, driver, http_requests, driver_requests>>

\* score_website_quality(url) on a value the scraper cannot read: the call
\* raises before any request is sent
ScoreWebsiteQualityRaises ==
    /\ PipelineReady
    /\ \E url \in WebsiteUrls :
        /\ ~UrlMissing(url)
        /\ WebsiteScrapeRaises(url)
        /\ last' = [op |-> "score_website_quality",
                    url |-> url,
                    scraped_data |-> NoData,
                    ret |-> Raised]
        /\ UNCHANGED <<scored_leads, output_csv, run, config, scorers, driver, http_requests, driver_requests>>

\* score_website_quality(url) with a URL: the scraper sends the request and
\* the signals it returns are scored
ScoreWebsiteQualityScraped ==
    /\ PipelineReady
    /\ \E url \in WebsiteUrls :
        /\ ~UrlMissing(url)
        /\ ~WebsiteScrapeRaises(url)
        /\ \E scraped_data \in scrape_website_data(url) :
               last' = [op |-> "score_website_quality",
                        url |-> url,
                        scraped_data |-> scraped_data,
                        ret |-> score_website_quality(scorers.digital_scorer.config,
                                                      url, scraped_data)]
        /\ http_requests' = http_requests \cup {url}
        /\ UNCHANGED <<scored_leads, output_csv, run, config, scorers, driver, driver_requests>>

InitDigital ==
    /\ config \in {[DefaultConfig EXCEPT !.digital_presence_scoring = d] :
                       d \in DigitalPresenceScorings}
    /\ scorers = PipelineScorers(config)
    /\ scored_leads = <<>>
    /\ output_csv = NoFile
    /\ run = Idle
    /\ driver = TRUE
    /\ http_requests = {}
    /\ driver_requests = {}
    /\ last = NoCall

NextDigital ==
    \/ ScoreWebsiteQualityNoUrl
    \/ ScoreWebsiteQualityRaises
    \/ ScoreWebsiteQualityScraped

SpecDigital == InitDigital /\ [][NextDigital]_vars

(***************************************************************************)
(* DigitalPresenceScorer.analyze_social_presence                           *)
(***************************************************************************)
\* The points of one reachable profile
SocialPoints == 3

\* What requests.get(url) may do for a profile URL: raise, or return a
\* response with a status code and a body that holds "not found" or not.  A
\* value that is no str is refused by requests with an exception
SocialResponses(url) ==
    IF ~Truthy(url) THEN {[requested |-> FALSE]}
    ELSE {[requested |-> TRUE, raised |-> TRUE]}
         \cup (IF IsStr(url)
               THEN {[requested |-> TRUE, raised |-> FALSE,
                      status_code |-> c, not_found |-> b] :
                         c \in {200, 404}, b \in BOOLEAN}
               ELSE {})

\* DigitalPresenceScorer._check_social_link(url), from what requests.get did
check_social_link(response) ==
    /\ ~response.raised
    /\ response.status_code = 200
    /\ ~response.not_found

\* url and self._check_social_link(url)
SocialLinkActive(url, response) == Truthy(url) /\ check_social_link(response)

\* A mutant of analyze_social_presence: management is needed unless both
\* profiles are reachable
analyze_social_presence_BothRequired(instagram_url, facebook_url, instagram_response, facebook_response) ==
    LET instagram == SocialLinkActive(instagram_url, instagram_response)
        facebook == SocialLinkActive(facebook_url, facebook_response)
        score == (IF instagram THEN SocialPoints ELSE 0)
                 + (IF facebook THEN SocialPoints ELSE 0)
        none == ~Truthy(instagram_url) /\ ~Truthy(facebook_url)
    IN [raised |-> FALSE,
        score |-> IF none THEN 0 ELSE score,
        opportunities |->
            [needs_social_management |-> none \/ score < 2 * SocialPoints,
             inactive_social |-> \/ (Truthy(instagram_url) /\ ~instagram)
                                 \/ (Truthy(facebook_url) /\ ~facebook)]]

\* DigitalPresenceScorer.analyze_social_presence(instagram_url, facebook_url),
\* from what the two requests did
analyze_social_presence(instagram_url, facebook_url, instagram_response, facebook_response) ==
    LET instagram == SocialLinkActive(instagram_url, instagram_response)
        facebook == SocialLinkActive(facebook_url, facebook_response)
        score == (IF instagram THEN SocialPoints ELSE 0)
                 + (IF facebook THEN SocialPoints ELSE 0)
        none == ~Truthy(instagram_url) /\ ~Truthy(facebook_url)
    IN [raised |-> FALSE,
        score |-> IF none THEN 0 ELSE score,
        opportunities |->
            [needs_social_management |-> none \/ score < SocialPoints,
             inactive_social |-> \/ (Truthy(instagram_url) /\ ~instagram)
                                 \/ (Truthy(facebook_url) /\ ~facebook)]]

SocialUrls ==
    {None, NaN, Str(<<>>),
     Str(HttpsScheme \o <<"i", "n", "s", "t", "a", "g", "r", "a", "m", ".", "c", "o", "m",
                          "/", "g", "y", "m">>),
     Str(HttpsScheme \o <<"f", "a", "c", "e", "b", "o", "o", "k", ".", "c", "o", "m",
                          "/", "g", "y", "m">>)}

AnalyzeSocialPresence ==
    /\ PipelineReady
    /\ \E instagram_url \in SocialUrls, facebook_url \in SocialUrls :
           \E instagram_response \in SocialResponses(instagram_url),
              facebook_response \in SocialResponses(facebook_url) :
               last' = [op |-> "analyze_social_presence",
                        instagram_url |-> instagram_url,
                        facebook_url |-> facebook_url,
                        instagram_response |-> instagram_response,
                        facebook_response |-> facebook_response,
                        ret |-> analyze_social_presence(instagram_url, facebook_url,
                                                        instagram_response,
                                                        facebook_response)]
    /\ UNCHANGED <<scored_leads, output_csv, run, config, scorers, driver, http_requests, driver_requests>>

InitSocial ==
    /\ config = DefaultConfig
    /\ scorers = PipelineScorers(config)
    /\ scored_leads = <<>>
    /\ output_csv = NoFile
    /\ run = Idle
    /\ driver \in BOOLEAN
    /\ http_requests = {}
    /\ driver_requests = {}
    /\ last = NoCall

NextSocial == AnalyzeSocialPresence

SpecSocial == InitSocial /\ [][NextSocial]_vars

(***************************************************************************)
(* DatabaseManager                                                         *)
(***************************************************************************)
\* db_columns: the columns of a DataFrame that are written to the table
db_columns ==
    {"BusinessName", "Email", "Phone", "Website", "City", "TotalScore", "Tier",
     "EstimatedValue", "Opportunities"}

\* create_opportunities_string(row): ', '.join of the opportunities flagged
create_opportunities_string(row) ==
    LET redesign == Get(row, "NeedsRedesign", FALSE)
        reviews == Get(row, "NeedsReviews", FALSE)
    IN IF redesign /\ reviews THEN "Website Redesign, Review Campaign"
       ELSE IF redesign THEN "Website Redesign"
       ELSE IF reviews THEN "Review Campaign"
       ELSE ""

\* A row of final_df: the Opportunities string and the columns of db_columns
\* the DataFrame has
FinalRow(row) ==
    [c \in (db_columns \cap DOMAIN row) \cup {"Opportunities"} |->
        IF c = "Opportunities" THEN create_opportunities_string(row) ELSE row[c]]

\* DatabaseManager.get_existing_emails(): the stored emails, the empty set
\* when the query fails
get_existing_emails(table, read_fails) ==
    IF read_fails THEN {} ELSE {table[i].Email : i \in DOMAIN table}

\* Email TEXT NOT NULL UNIQUE
EmailUnique(table) ==
    \A i \in DOMAIN table, j \in DOMAIN table :
        table[i].Email = table[j].Email => i = j

\* A mutant of to_sql: a table created without UNIQUE on Email
to_sql_NoUniqueConstraint(table, final_df, insert_fails) ==
    IF insert_fails THEN table ELSE table \o final_df

\* final_df.to_sql('scored_leads', conn, if_exists='append') and the
\* handling of sqlite3.Error around it: the rows are inserted in one
\* transaction, which is rolled back when the database fails or when a row
\* breaks the UNIQUE constraint
to_sql(table, final_df, insert_fails) ==
    IF insert_fails \/ ~EmailUnique(table \o final_df)
    THEN table
    ELSE table \o final_df

\* DatabaseManager.save_leads_dataframe(leads_df): the table after the call
save_leads_dataframe(table, leads_df, read_fails, insert_fails) ==
    IF leads_df = <<>> THEN table
    ELSE LET existing_emails == get_existing_emails(table, read_fails)
             new_leads_df ==
                 SelectSeq(leads_df, LAMBDA row : row.Email \notin existing_emails)
             final_df == [i \in DOMAIN new_leads_df |-> FinalRow(new_leads_df[i])]
         IN IF new_leads_df = <<>> THEN table
            ELSE to_sql(table, final_df, insert_fails)

OwnerAtSmallGym == <<"o">> \o <<At>> \o SmallGymCom

InfoAtGmail == <<"i">> \o <<At>> \o GmailCom

\* The scored rows handed to the database: two emails, a site that needs a
\* redesign or not
LeadRows ==
    {[BusinessName |-> Str(<<"g">>), Email |-> Str(e), Phone |-> None,
      Website |-> None, City |-> None, TotalScore |-> 1, Tier |-> "cold",
      EstimatedValue |-> "1", NeedsRedesign |-> r, NeedsReviews |-> TRUE] :
         e \in {OwnerAtSmallGym, InfoAtGmail}, r \in BOOLEAN}

LeadFrames == UNION {[1..n -> LeadRows] : n \in 0..MaxFrameLen}

SaveLeadsDataframe ==
    /\ PipelineReady
    /\ \E leads_df \in LeadFrames, read_fails \in BOOLEAN, insert_fails \in BOOLEAN :
           /\ scored_leads' = save_leads_dataframe(scored_leads, leads_df,
                                                   read_fails, insert_fails)
           /\ last' = [op |-> "save_leads_dataframe", leads_df |-> leads_df,
                       read_fails |-> read_fails, insert_fails |-> insert_fails,
                       before |-> scored_leads]
    /\ UNCHANGED <<config, scorers, driver, http_requests, driver_requests,
                   output_csv, run>>

InitDatabase ==
    /\ config = DefaultConfig
    /\ scorers = PipelineScorers(config)
    /\ scored_leads = <<>>
    /\ output_csv = NoFile
    /\ run = Idle
    /\ driver \in BOOLEAN
    /\ http_requests = {}
    /\ driver_requests = {}
    /\ last = NoCall

NextDatabase == SaveLeadsDataframe

SpecDatabase == InitDatabase /\ [][NextDatabase]_vars

(***************************************************************************)
(* LeadScoringPipeline.process_leads                                       *)
(***************************************************************************)
\* DataValidator.validate_email(email): a non-empty str that email_validator
\* accepts.  The syntax test is reduced to one '@' with text on both sides;
\* deliverable is the answer of the MX lookup, an exception counting as no
validate_email(email, deliverable) ==
    /\ IsStr(email)
    /\ Len(email.s) > 0
    /\ Cardinality(AtPositions(email.s)) = 1
    /\ Len(SplitFirst(email.s)) > 0
    /\ Len(SplitLast(email.s)) > 0
    /\ deliverable

\* df[df['email'].apply(self.validator.validate_email)]
ValidRows(df, deliverable) ==
    LET kept == {i \in DOMAIN df : validate_email(df[i].email, deliverable[i])}
        F[n \in 0..Len(df)] ==
            IF n = 0 THEN <<>>
            ELSE IF n \in kept THEN Append(F[n - 1], df[n]) ELSE F[n - 1]
    IN F[Len(df)]

\* The four scorer calls of one iteration of the loop, in the order of the
\* code, and the sub-score mapping built from them
LeadScores(s, drv, row, website_data, maps_data) ==
    LET business == score_business_size(s.business_scorer.scoring_config,
                                        s.business_scorer.chain_indicators,
                                        s.business_scorer.premium_indicators,
                                        row.businessname, row.address)
        digital == IF ~UrlMissing(row.websiteurl) /\ WebsiteScrapeRaises(row.websiteurl)
                   THEN Raised
                   ELSE score_website_quality(s.digital_scorer.config,
                                              row.websiteurl, website_data)
        engagement == IF MapsScrapeRaises(drv, row.gmaps_url) THEN Raised
                      ELSE analyze_review_opportunity(s.engagement_scorer.config,
                                                      maps_data, row.gmaps_url)
        contact_score == ContactQualityScorer_score(s.contact_scorer.scoring_config,
                                                    s.contact_scorer.negative_keywords,
                                                    s.contact_scorer.dm_keywords,
                                                    row.email)
    IN IF business.raised THEN [raised |-> TRUE, calls |-> 1]
       ELSE IF digital.raised THEN [raised |-> TRUE, calls |-> 2]
       ELSE IF engagement.raised THEN [raised |-> TRUE, calls |-> 3]
       ELSE [raised |-> FALSE,
             calls |-> 4,
             scores |-> [business_size |-> business.score,
                         digital_presence |-> digital.score,
                         engagement_opportunity |-> engagement.score,
                         contact_quality |-> contact_score,
                         tech_needs |-> 10],
             opportunities |-> digital.opportunities,
             review_opps |-> engagement.opportunities]

\* The dictionary appended to scored_leads for a row.  The totals of the
\* model are integers, which int() leaves as they are
ScoredLead(row, lead, final) ==
    [BusinessName |-> row.businessname,
     Email |-> row.email,
     Phone |-> row.telephone,
     Website |-> row.websiteurl,
     City |-> row.city,
     TotalScore |-> final.total,
     Tier |-> final.tier_name,
     EstimatedValue |-> final.estimated_value,
     NeedsRedesign |-> Get(lead.opportunities, "needs_redesign", FALSE),
     NeedsReviews |-> Get(lead.review_opps, "needs_review_campaign", FALSE)]

\* results_df.sort_values('TotalScore', ascending=False): the default sort
\* is not stable, so rows of equal TotalScore come out in any order
sort_values(rows) ==
    {sorted \in {[i \in DOMAIN rows |-> rows[perm[i]]] :
                    perm \in {f \in [DOMAIN rows -> DOMAIN rows] :
                                 \A i \in DOMAIN rows, j \in DOMAIN rows :
                                     f[i] = f[j] => i = j}} :
         \A i \in DOMAIN sorted, j \in DOMAIN sorted :
             i < j => sorted[i].TotalScore >= sorted[j].TotalScore}

\* The rows of the leads files, after the column names are cleaned: a chain
\* with a website, a premium gym with a map page, a row without a name, a
\* row without an email
InputRows ==
    {[businessname |-> Str(<<"g">>), address |-> Str(Suite), zip |-> None,
      websiteurl |-> Str(HttpsScheme \o GymHost), gmaps_url |-> Str(<<>>),
      email |-> Str(OwnerAtSmallGym), telephone |-> None, city |-> None],
     [businessname |-> Str(<<"e">>), address |-> None, zip |-> None,
      websiteurl |-> None,
      gmaps_url |-> Str(HttpsScheme \o MapsHost \o <<"/", "x">>),
      email |-> Str(InfoAtGmail), telephone |-> None, city |-> None],
     [businessname |-> NaN, address |-> None, zip |-> None,
      websiteurl |-> None, gmaps_url |-> None,
      email |-> Str(OwnerAtSmallGym), telephone |-> None, city |-> None],
     [businessname |-> Str(<<"e">>), address |-> None, zip |-> None,
      websiteurl |-> None, gmaps_url |-> None,
      email |-> NaN, telephone |-> None, city |-> None]}

\* batch_load_files(file_paths): the rows of the files that could be read
LeadFiles == UNION {[1..n -> InputRows] : n \in 0..MaxBatchLen}

\* process_leads up to the loop: the files are loaded and the rows with a
\* valid email kept.  When no file yields a row the DataFrame has no column
\* and df['email'] raises KeyError
LoadLeads ==
    /\ PipelineReady
    /\ run.pc = "idle"
    /\ \E df \in LeadFiles :
           \E deliverable \in [DOMAIN df -> BOOLEAN] :
               run' = IF df = <<>>
                      THEN [pc |-> "raised", loaded |-> df, at |-> "load",
                            scored |-> <<>>]
                      ELSE [pc |-> "scoring", loaded |-> df,
                            deliverable |-> deliverable,
                            df |-> ValidRows(df, deliverable),
                            scored |-> <<>>]
    /\ UNCHANGED <<config, scorers, driver, http_requests, driver_requests,
                   scored_leads, output_csv, last>>

\* One iteration of the loop: the next row is scored and its dictionary
\* appended, or a scorer raises and process_leads ends
ScoreLead ==
    /\ run.pc = "scoring"
    /\ Len(run.scored) < Len(run.df)
    /\ LET row == run.df[Len(run.scored) + 1]
           \* what the scraper may hand to the two enrichment scorers; NoData
           \* when it is not asked or raises
           website_fetches ==
               IF UrlMissing(row.websiteurl) \/ WebsiteScrapeRaises(row.websiteurl)
               THEN {NoData} ELSE scrape_website_data(row.websiteurl)
           maps_fetches ==
               IF MapsScrapeRaises(driver, row.gmaps_url) THEN {NoData}
               ELSE scrape_google_maps_data(driver, row.gmaps_url)
       IN \E website_data \in website_fetches, maps_data \in maps_fetches :
              LET lead == LeadScores(scorers, driver, row, website_data, maps_data)
                  final == calculate_final_score(scorers.calculator.weights,
                                                 scorers.calculator.tiers,
                                                 scorers.calculator.tier_defs,
                                                 lead.scores)
              IN /\ run' = IF lead.raised
                           THEN [pc |-> "raised", loaded |-> run.loaded,
                                 at |-> "score", scored |-> run.scored]
                           ELSE [run EXCEPT
                                     !.scored = Append(@, ScoredLead(row, lead, final))]
                 /\ http_requests' =
                        IF lead.calls >= 2 /\ website_data # NoData
                        THEN http_requests \cup {row.websiteurl} ELSE http_requests
                 /\ driver_requests' =
                        IF lead.calls >= 3 /\ ~MapsScrapeSkipped(driver, row.gmaps_url)
                               /\ maps_data # NoData
                        THEN driver_requests \cup {row.gmaps_url} ELSE driver_requests
    /\ UNCHANGED <<config, scorers, driver, scored_leads, output_csv, last>>

\* A mutant of LoopExhausted: the loop may be left after any row
LoopExhausted_AnyTime(r) == TRUE

\* for _, row in df.iterrows() has no row left
LoopExhausted(r) == Len(r.scored) = Len(r.df)

\* After the loop: results_df is built and, unless empty, sorted
SortResults ==
    /\ run.pc = "scoring"
    /\ LoopExhausted(run)
    /\ \E results_df \in sort_values(run.scored) :
           run' = [pc |-> "sorted", loaded |-> run.loaded,
                   deliverable |-> run.deliverable, df |-> run.df,
                   results_df |-> results_df]
    /\ UNCHANGED <<config, scorers, driver, http_requests, driver_requests,
                   scored_leads, output_csv, last>>

\* self.db.save_leads_dataframe(results_df)
SaveResults ==
    /\ run.pc = "sorted"
    /\ \E read_fails \in BOOLEAN, insert_fails \in BOOLEAN :
           scored_leads' = save_leads_dataframe(scored_leads, run.results_df,
                                                read_fails, insert_fails)
    /\ run' = [run EXCEPT !.pc = "saved"]
    /\ UNCHANGED <<config, scorers, driver, http_requests, driver_requests,
                   output_csv, last>>

\* results_df.to_csv(...) and return results_df
WriteCsv ==
    /\ run.pc = "saved"
    /\ output_csv' = [written |-> TRUE, rows |-> run.results_df]
    /\ run' = [run EXCEPT !.pc = "returned"]
    /\ UNCHANGED <<config, scorers, driver, http_requests, driver_requests,
                   scored_leads, last>>

InitPipeline ==
    /\ config = DefaultConfig
    /\ scorers = PipelineScorers(config)
    /\ scored_leads \in
           {<<>>,
            <<[BusinessName |-> Str(<<"g">>), Email |-> Str(OwnerAtSmallGym),
               Phone |-> None, Website |-> None, City |-> None, TotalScore |-> 1,
               Tier |-> "Cold Lead", EstimatedValue |-> "$500",
               Opportunities |-> ""]>>}
    /\ output_csv = NoFile
    /\ run = Idle
    /\ driver \in BOOLEAN
    /\ http_requests = {}
    /\ driver_requests = {}
    /\ last = NoCall

NextPipeline ==
    \/ LoadLeads
    \/ ScoreLead
    \/ SortResults
    \/ SaveResults
    \/ WriteCsv

SpecPipeline == InitPipeline /\ [][NextPipeline]_vars

(***************************************************************************)
(* LeadScoringPipeline.__init__: the scorers are constructed one after the *)
(* other from the loaded configuration, which may lack sections or keys    *)
(***************************************************************************)
ConstructionOrder ==
    <<"business_scorer", "digital_scorer", "engagement_scorer", "contact_scorer",
      "calculator">>

\* The scorers constructed before this one
ConstructedBefore(name) ==
    {ConstructionOrder[j] : j \in {i \in 1..Len(ConstructionOrder) :
                                      \E k \in (i + 1)..Len(ConstructionOrder) :
                                          ConstructionOrder[k] = name}}

\* self.<name> = <Scorer>(self.config): the scorer is kept when its
\* constructor returns, and the exception leaves the pipeline as it was
Construct(name, r) ==
    /\ DOMAIN scorers = ConstructedBefore(name)
    /\ last' = [op |-> "__init__",
                scorer |-> name,
                ret |-> IF r.raised THEN r ELSE [raised |-> FALSE]]
    /\ scorers' = IF r.raised THEN scorers
                  ELSE [k \in DOMAIN scorers \cup {name} |->
                            IF k = name THEN r.self ELSE scorers[k]]
    /\ UNCHANGED <<scored_leads, output_csv, run, config, driver, http_requests, driver_requests>>

ConstructBusinessScorer == Construct("business_scorer", BusinessMetricsScorer(config))

ConstructDigitalScorer == Construct("digital_scorer", DigitalPresenceScorer(config))

ConstructEngagementScorer == Construct("engagement_scorer", EngagementScorer(config))

ConstructContactScorer == Construct("contact_scorer", ContactQualityScorer(config))

ConstructCalculator == Construct("calculator", PriorityCalculator(config))

\* d without the key k
Without(d, k) == [x \in DOMAIN d \ {k} |-> d[x]]

\* What load_config() may return: the complete configuration, the
\* configuration without one of its sections, with a section left empty,
\* with a bonus missing from business_size_scoring or a threshold missing
\* from tier_thresholds
ConstructionConfigs ==
    {DefaultConfig}
    \cup {Without(DefaultConfig, section) : section \in DOMAIN DefaultConfig}
    \cup {[DefaultConfig EXCEPT ![section] = <<>>] :
              section \in {"business_size_scoring", "scoring_weights",
                           "tier_thresholds", "tier_definitions"}}
    \cup {[DefaultConfig EXCEPT !.business_size_scoring = Without(@, key)] :
              key \in DOMAIN DefaultBusinessSizeScoring}
    \cup {[DefaultConfig EXCEPT !.tier_thresholds = Without(@, key)] : key \in TierKeys}

InitConstruction ==
    /\ config \in ConstructionConfigs
    /\ scorers = <<>>
    /\ scored_leads = <<>>
    /\ output_csv = NoFile
    /\ run = Idle
    /\ driver = TRUE
    /\ http_requests = {}
    /\ driver_requests = {}
    /\ last = NoCall

NextConstruction ==
    \/ ConstructBusinessScorer
    \/ ConstructDigitalScorer
    \/ ConstructEngagementScorer
    \/ ConstructContactScorer
    \/ ConstructCalculator
    \/ ScoreBusinessSize
    \/ CalculateFinalScore

SpecConstruction == InitConstruction /\ [][NextConstruction]_vars

(***************************************************************************)
(* The whole scoring engine under one configuration                        *)
(***************************************************************************)
Init ==
    /\ config = DefaultConfig
    /\ scorers = PipelineScorers(config)
    /\ scored_leads = <<>>
    /\ output_csv = NoFile
    /\ run = Idle
    /\ driver \in BOOLEAN
    /\ http_requests = {}
    /\ driver_requests = {}
    /\ last = NoCall

Next ==
    \/ ScoreBusinessSize
    \/ ContactScore
    \/ ScoreWebsiteQualityNoUrl
    \/ ScoreWebsiteQualityRaises
    \/ ScoreWebsiteQualityScraped
    \/ AnalyzeReviewOpportunitySkipped
    \/ AnalyzeReviewOpportunityScraped
    \/ CalculateFinalScore

Spec == Init /\ [][Next]_vars

(***************************************************************************)
(* Properties of PriorityCalculator.calculate_final_score (SpecCalc)       *)
(***************************************************************************)
Calculated == last.op = "calculate_final_score"

\* The threshold a tier is compared against
Threshold(tier) == Get(config.tier_thresholds, tier, DefaultThreshold)

\* C1 as stated, for the configurations that set all three thresholds: a
\* total equal to tier_thresholds.hot selects hot, and a total one unit
\* below tier_thresholds.hot selects warm.
C1_OneBelowHotIsWarm ==
    (Calculated /\ DOMAIN config.tier_thresholds = TierKeys) =>
        /\ last.ret.total = config.tier_thresholds.hot => last.ret.tier_key = "hot"
        /\ last.ret.total = config.tier_thresholds.hot - 1 => last.ret.tier_key = "warm"

\* C1 amended: a total equal to tier_thresholds.hot selects hot (the bound
\* is inclusive); a total one unit below it never selects hot, and selects
\* warm exactly when it meets the warm threshold, which it does whenever
\* warm <= hot - 1.
C1_HotBoundInclusive ==
    (Calculated /\ "hot" \in DOMAIN config.tier_thresholds) =>
        /\ last.ret.total = config.tier_thresholds.hot => last.ret.tier_key = "hot"
        /\ last.ret.total = config.tier_thresholds.hot - 1 =>
               /\ last.ret.tier_key # "hot"
               /\ last.ret.tier_key = "warm" <=> last.ret.total >= Threshold("warm")
               /\ Threshold("warm") <= config.tier_thresholds.hot - 1
                      => last.ret.tier_key = "warm"

\* A total one below hot that selects warm, under thresholds in descending order
C1_Witness ==
    /\ Calculated
    /\ DOMAIN config.tier_thresholds = TierKeys
    /\ config.tier_thresholds.hot > config.tier_thresholds.warm
    /\ config.tier_thresholds.warm > config.tier_thresholds.cold
    /\ last.ret.total = config.tier_thresholds.hot - 1
    /\ last.ret.tier_key = "warm"

\* The order in which the tiers are tried
TierOrder == <<"hot", "warm", "cold">>

\* C2: for every total and every threshold configuration, descending or
\* not, the tier chosen is the first of hot, warm, cold whose threshold the
\* total meets or exceeds, and low when the total meets none.
C2_FirstMatchWins ==
    Calculated =>
        LET met == {i \in 1..Len(TierOrder) : last.ret.total >= Threshold(TierOrder[i])}
        IN IF met = {} THEN last.ret.tier_key = "low"
           ELSE \E i \in met :
                    /\ \A j \in met : i <= j
                    /\ last.ret.tier_key = TierOrder[i]

\* Thresholds not in descending order, a total that meets all three: hot wins
C2_Witness ==
    /\ Calculated
    /\ DOMAIN config.tier_thresholds = TierKeys
    /\ config.tier_thresholds.hot < config.tier_thresholds.warm
    /\ config.tier_thresholds.cold < config.tier_thresholds.hot
    /\ last.ret.total >= config.tier_thresholds.warm
    /\ last.ret.tier_key = "hot"

\* What one score key adds to the total according to C3
Contribution(key) ==
    IF key \in DOMAIN config.scoring_weights /\ key \in DOMAIN last.scores
    THEN last.scores[key] * config.scoring_weights[key]
    ELSE 0

\* C3: the total is the sum over the keys of scoring_weights of
\* sub_score[key] * weight[key]; a sub-score without a weight adds nothing
\* and a weighted key without a sub-score adds 0.
C3_WeightedSum ==
    Calculated =>
        last.ret.total = SumOver(ScoreKeys, [k \in ScoreKeys |-> Contribution(k)])

\* A sub-score without a weight, a weight without a sub-score and a key that
\* has both
C3_Witness ==
    /\ Calculated
    /\ DOMAIN last.scores = ScoreKeys
    /\ \E k \in ScoreKeys :
           /\ k \notin DOMAIN config.scoring_weights
           /\ last.scores[k] > 0
           /\ \E j \in DOMAIN config.scoring_weights :
                  last.ret.total = last.scores[j] * config.scoring_weights[j]
    /\ last.ret.total > 0

(***************************************************************************)
(* Properties of BusinessMetricsScorer.score_business_size (SpecBusiness)  *)
(***************************************************************************)
\* An indicator is contained in the name, letter case ignored
NameHasIndicator(indicators, business_name) ==
    \E ind \in indicators : Contains(Lower(business_name.s), Lower(ind))

\* C4: for every business name that contains both a chain indicator and a
\* premium indicator, the category returned is Premium and the score
\* includes both chain_bonus and premium_bonus.
C4_PremiumOverridesChain ==
    (/\ last.op = "score_business_size"
     /\ ~last.ret.raised
     /\ NameHasIndicator(config.chain_indicators, last.business_name)
     /\ NameHasIndicator(config.premium_indicators, last.business_name)) =>
        /\ last.ret.size_category = "Premium"
        /\ last.ret.score >= config.business_size_scoring.chain_bonus
                                 + config.business_size_scoring.premium_bonus

BusinessScored == last.op = "score_business_size"

\* A name or an address that is absent or empty: None, NaN (the value of an
\* empty cell of the leads file) or the empty string
AbsentOrEmpty(v) == ~IsStr(v) \/ v = Str(<<>>)

\* The address contains "suite" or "plaza", letter case ignored
AddressHasSuiteOrPlaza(address) ==
    /\ IsStr(address)
    /\ \E w \in {Suite, Plaza} : Contains(Lower(address.s), w)

\* C17: score_business_size has no failure mode: for every business_name
\* and address, each absent, empty or a non-empty string, it returns a
\* score and a category without raising; an absent or empty name matches no
\* indicator and an absent or empty address earns no location bonus.
C17_NoFailureMode ==
    BusinessScored =>
        /\ ~last.ret.raised
        /\ AbsentOrEmpty(last.business_name) => last.ret.size_category = "Small"
        /\ (AbsentOrEmpty(last.business_name) /\ AbsentOrEmpty(last.address)) =>
               last.ret.score = 0

\* The bonuses the name earns, as the code matches it
NameBonuses ==
    (IF AnyIn(config.chain_indicators, Lower(last.business_name.s))
     THEN config.business_size_scoring.chain_bonus ELSE 0)
    + (IF AnyIn(config.premium_indicators, Lower(last.business_name.s))
       THEN config.business_size_scoring.premium_bonus ELSE 0)

\* The call of the worked example
GoldsGymCall ==
    /\ BusinessScored
    /\ ~last.ret.raised
    /\ config = ExampleConfig
    /\ last.business_name = Str(GoldsGymSuite200)

C20_IndicatorCaseIgnored ==
    (BusinessScored /\ ~last.ret.raised) =>
        /\ NameHasIndicator(config.premium_indicators, last.business_name) =>
               last.ret.size_category = "Premium"
        /\ (/\ NameHasIndicator(config.chain_indicators, last.business_name)
            /\ ~NameHasIndicator(config.premium_indicators, last.business_name)) =>
               last.ret.size_category = "Chain"

(***************************************************************************)
(* Properties of ContactQualityScorer.score (SpecContact)                  *)
(***************************************************************************)
\* C5: for every email whose local part (the lowercased text before the
\* first '@') contains a configured negative keyword, the result is exactly
\* generic_penalty, whatever the domain and whatever decision-maker keyword
\* the local part also contains.
C5_NegativeKeywordOverrides ==
    (/\ last.op = "score"
     /\ IsStr(last.email)
     /\ \E k \in config.negative_email_keywords :
            Contains(Lower(SplitFirst(last.email.s)), k)) =>
        last.ret.score = config.contact_quality_scoring.generic_penalty

\* A local part with both a negative and a decision-maker keyword, at a
\* personal domain, scored with the penalty alone
C5_Witness ==
    /\ last.op = "score"
    /\ IsStr(last.email)
    /\ AnyIn(config.negative_email_keywords, email_local_part(last.email))
    /\ AnyIn(config.decision_maker_keywords, email_local_part(last.email))
    /\ email_domain(last.email) = GmailCom
    /\ config.contact_quality_scoring.generic_penalty < 0
    /\ last.ret.score = config.contact_quality_scoring.generic_penalty

\* s ends with the domain d, alone or right after an '@'
EndsWithDomain(s, d) ==
    /\ Len(s) >= Len(d)
    /\ SubSeq(s, Len(s) - Len(d) + 1, Len(s)) = d
    /\ Len(s) > Len(d) => s[Len(s) - Len(d)] = At

\* The address is at one of the four personal providers
AtPersonalDomain(email) ==
    \E d \in {GmailCom, YahooCom, HotmailCom, OutlookCom} :
        EndsWithDomain(Lower(email.s), d)

\* C18: for a non-empty string email whose local part holds no negative
\* keyword, the score is decision_maker_bonus (only when a decision-maker
\* keyword is a substring of the local part) plus exactly one of
\* personal_domain_bonus (domain gmail.com, yahoo.com, hotmail.com or
\* outlook.com) and business_domain_bonus (any other domain); an empty or
\* non-string email scores 0.
C18_BonusesAdd ==
    last.op = "score" =>
        /\ ~last.ret.raised
        /\ (~IsStr(last.email) \/ last.email = Str(<<>>)) => last.ret.score = 0
        /\ (/\ IsStr(last.email)
            /\ last.email # Str(<<>>)
            /\ \A k \in config.negative_email_keywords :
                   ~Contains(Lower(SplitFirst(last.email.s)), k)) =>
               last.ret.score =
                   (IF \E k \in config.decision_maker_keywords :
                           Contains(Lower(SplitFirst(last.email.s)), k)
                    THEN config.contact_quality_scoring.decision_maker_bonus ELSE 0)
                   + (IF AtPersonalDomain(last.email)
                      THEN config.contact_quality_scoring.personal_domain_bonus
                      ELSE config.contact_quality_scoring.business_domain_bonus)

\* A decision-maker local part at a personal provider written in capitals,
\* under a configuration with a negative keyword that does not occur: both
\* bonuses are added
C18_Witness ==
    /\ last.op = "score"
    /\ IsStr(last.email)
    /\ config.negative_email_keywords # {}
    /\ ~AnyIn(config.negative_email_keywords, email_local_part(last.email))
    /\ AnyIn(config.decision_maker_keywords, email_local_part(last.email))
    /\ SplitLast(last.email.s) # GmailCom
    /\ email_domain(last.email) = GmailCom
    /\ config.contact_quality_scoring.decision_maker_bonus = 1
    /\ last.ret.score = 3

(***************************************************************************)
(* Properties of EngagementScorer.analyze_review_opportunity               *)
(* (SpecEngagement)                                                        *)
(***************************************************************************)
Analyzed == last.op = "analyze_review_opportunity" /\ ~last.ret.raised

\* The enrichment-failure case: no review, no rating, a maps URL supplied
EnrichmentFailure ==
    /\ last.scraped_data.review_count = 0
    /\ last.scraped_data.average_rating = 0
    /\ Truthy(last.gmaps_url)

\* C6: needs_review_campaign is false for every review_count at or above 25
\* and true for every review_count below it, whatever the rating and whether
\* or not a maps URL was supplied.
C6_CampaignBelowManyReviews ==
    Analyzed =>
        /\ last.scraped_data.review_count >= 25
               => ~last.ret.opportunities.needs_review_campaign
        /\ last.scraped_data.review_count < 25
               => last.ret.opportunities.needs_review_campaign

\* Exactly 25 reviews: no campaign needed
C6_Witness ==
    /\ Analyzed
    /\ last.scraped_data.review_count = 25
    /\ last.scraped_data.average_rating > 0
    /\ ~last.ret.opportunities.needs_review_campaign

\* C7: the score is no_reviews when count = 0, few_reviews when
\* 0 < count < 10, moderate_reviews when 10 <= count < 25 and many_reviews
\* when count >= 25, except in the enrichment-failure case.
C7_ReviewBuckets ==
    (Analyzed /\ ~EnrichmentFailure) =>
        LET count == last.scraped_data.review_count
            cfg == config.review_opportunity_scoring
        IN /\ count = 0 => last.ret.score = cfg.no_reviews
           /\ (0 < count /\ count < 10) => last.ret.score = cfg.few_reviews
           /\ (10 <= count /\ count < 25) => last.ret.score = cfg.moderate_reviews
           /\ count >= 25 => last.ret.score = cfg.many_reviews

\* Exactly 10 reviews score moderate_reviews, which differs from few_reviews
C7_Witness ==
    /\ Analyzed
    /\ last.scraped_data.review_count = 10
    /\ last.ret.score = config.review_opportunity_scoring.moderate_reviews
    /\ last.ret.score # config.review_opportunity_scoring.few_reviews

\* C8: with review_count = 0, average_rating = 0.0 and a maps URL supplied,
\* the score is moderate_reviews and needs_review_campaign is true; with
\* review_count = 0 and a non-zero rating or no maps URL, the score is
\* no_reviews.
C8_FailureOverride ==
    (Analyzed /\ last.scraped_data.review_count = 0) =>
        LET cfg == config.review_opportunity_scoring
        IN IF last.scraped_data.average_rating = 0 /\ Truthy(last.gmaps_url)
           THEN /\ last.ret.score = cfg.moderate_reviews
                /\ last.ret.opportunities.needs_review_campaign
           ELSE last.ret.score = cfg.no_reviews

\* The override applied: a maps URL, the scraper's defaults, the moderate
\* score where no_reviews would be another
C8_Witness ==
    /\ Analyzed
    /\ IsStr(last.gmaps_url)
    /\ Contains(last.gmaps_url.s, MapsHost)
    /\ EnrichmentFailure
    /\ last.ret.score = config.review_opportunity_scoring.moderate_reviews
    /\ last.ret.score # config.review_opportunity_scoring.no_reviews
    /\ last.ret.opportunities.needs_review_campaign

(***************************************************************************)
(* Properties of DigitalPresenceScorer.score_website_quality (SpecDigital) *)
(***************************************************************************)
WebsiteScored == last.op = "score_website_quality" /\ ~last.ret.raised

\* C9: when the fetched signals say the site is not accessible, the result
\* is score 2 with needs_redesign true and needs_mobile_optimization,
\* needs_seo and missing_online_booking false, whatever the other signals
\* and the configuration.
C9_InaccessibleSite ==
    (/\ WebsiteScored
     /\ last.scraped_data # NoData
     /\ ~last.scraped_data.is_accessible) =>
        /\ last.ret.score = 2
        /\ last.ret.opportunities.needs_redesign
        /\ ~last.ret.opportunities.needs_mobile_optimization
        /\ ~last.ret.opportunities.needs_seo
        /\ ~last.ret.opportunities.missing_online_booking
        /\ DOMAIN last.ret.opportunities =
               {"needs_redesign", "needs_mobile_optimization", "needs_seo",
                "missing_online_booking"}

\* An https site that could not be fetched
C9_Witness ==
    /\ WebsiteScored
    /\ last.scraped_data # NoData
    /\ ~last.scraped_data.is_accessible
    /\ last.scraped_data.has_ssl
    /\ last.ret.score = 2
    /\ last.url \in http_requests

\* C10: when no website URL is present (empty or absent), the result is
\* score 0 with needs_redesign true, and the scraper is not consulted: the
\* call sends no request.
C10_NoWebsite ==
    [][(last'.op = "score_website_quality" /\ ~Truthy(last'.url)) =>
           /\ ~last'.ret.raised
           /\ last'.ret.score = 0
           /\ last'.ret.opportunities.needs_redesign
           /\ last'.scraped_data = NoData
           /\ http_requests' = http_requests
           /\ driver_requests' = driver_requests]_vars

\* A lead without a website scored after the scraper had been used for another
C10_Witness ==
    /\ WebsiteScored
    /\ last.url = Str(<<>>)
    /\ last.ret.score = 0
    /\ last.ret.opportunities.needs_redesign
    /\ http_requests # {}
    /\ last.url \notin http_requests

\* An accessible site was fetched and scored
AccessibleScored ==
    /\ WebsiteScored
    /\ last.scraped_data # NoData
    /\ last.scraped_data.is_accessible

\* The points of the three positive signals of the fetched site
SignalPoints ==
    (IF last.scraped_data.is_mobile_friendly
     THEN config.digital_presence_scoring.mobile_responsive ELSE 0)
    + (IF last.scraped_data.has_title_and_desc
       THEN config.digital_presence_scoring.seo_basics ELSE 0)
    + (IF last.scraped_data.has_booking_feature
       THEN config.digital_presence_scoring.online_booking ELSE 0)

\* C11: for an accessible site, each of the signals mobile-friendly,
\* title-and-description and booking-feature either adds its configured
\* value to the score (signal true) or sets its flag (signal false), never
\* both and never neither; the score is the sum of the values of the true
\* signals, plus modern_tech when it applies.
C11_SignalOrFlag ==
    AccessibleScored =>
        /\ last.ret.opportunities.needs_mobile_optimization
               = ~last.scraped_data.is_mobile_friendly
        /\ last.ret.opportunities.needs_seo = ~last.scraped_data.has_title_and_desc
        /\ last.ret.opportunities.missing_online_booking
               = ~last.scraped_data.has_booking_feature
        /\ last.ret.score \in
               {SignalPoints, SignalPoints + config.digital_presence_scoring.modern_tech}

\* A mobile-friendly site with no title and no booking: one value added,
\* two flags set
C11_Witness ==
    /\ AccessibleScored
    /\ last.scraped_data.is_mobile_friendly
    /\ ~last.scraped_data.has_title_and_desc
    /\ ~last.scraped_data.has_booking_feature
    /\ ~last.scraped_data.design_is_modern
    /\ last.ret.score = config.digital_presence_scoring.mobile_responsive
    /\ ~last.ret.opportunities.needs_mobile_optimization
    /\ last.ret.opportunities.needs_seo
    /\ last.ret.opportunities.missing_online_booking

\* C12: for an accessible site, an outdated design sets needs_redesign,
\* subtracts nothing and earns no modern_tech even when the design is also
\* modern; modern_tech is added exactly when the design is modern and not
\* outdated.
C12_OutdatedBeforeModern ==
    AccessibleScored =>
        /\ last.ret.opportunities.needs_redesign = last.scraped_data.design_is_outdated
        /\ last.ret.score =
               SignalPoints
               + (IF last.scraped_data.design_is_modern
                     /\ ~last.scraped_data.design_is_outdated
                  THEN config.digital_presence_scoring.modern_tech ELSE 0)

\* A design both outdated and modern: flagged, and scored without modern_tech
C12_Witness ==
    /\ AccessibleScored
    /\ last.scraped_data.design_is_outdated
    /\ last.scraped_data.design_is_modern
    /\ last.ret.opportunities.needs_redesign
    /\ last.ret.score = SignalPoints
    /\ config.digital_presence_scoring.modern_tech > 0

(***************************************************************************)
(* Properties of the construction of the scorers (SpecConstruction) and of *)
(* the tier definitions (SpecTierDefs)                                     *)
(***************************************************************************)
\* The sections of the configuration a scorer reads
SectionsRead(name) ==
    CASE name = "business_scorer" ->
             {"business_size_scoring", "chain_indicators", "premium_indicators"}
      [] name = "digital_scorer" -> {"digital_presence_scoring"}
      [] name = "engagement_scorer" -> {"review_opportunity_scoring"}
      [] name = "contact_scorer" ->
             {"contact_quality_scoring", "negative_email_keywords",
              "decision_maker_keywords"}
      [] name = "calculator" -> {"scoring_weights", "tier_thresholds", "tier_definitions"}

ConstructorCalled(name) == last.op = "__init__" /\ last.scorer = name

BonusKeyMissing ==
    LET name == Lower(last.business_name.s)
        bonuses == DOMAIN config.business_size_scoring
    IN \/ AnyIn(config.chain_indicators, name) /\ "chain_bonus" \notin bonuses
       \/ AnyIn(config.premium_indicators, name) /\ "premium_bonus" \notin bonuses
       \/ AddressHasSuiteOrPlaza(last.address) /\ "location_bonus" \notin bonuses

C15_RaisesIffMissing ==
    ConstructorCalled("calculator") =>
        (last.ret.raised <=> ~(SectionsRead("calculator") \subseteq DOMAIN config))

\* C15, amended: the construction of PriorityCalculator raises KeyError
\* whenever scoring_weights, tier_thresholds or tier_definitions is missing
\* or empty, and succeeds, storing the three sections, when all three are
\* present and not empty.
C15_RaisesIffMissingOrEmpty ==
    ConstructorCalled("calculator") =>
        /\ last.ret.raised <=>
               \E section \in SectionsRead("calculator") :
                   section \notin DOMAIN config \/ DOMAIN config[section] = {}
        /\ last.ret.raised => (last.ret = KeyError /\ "calculator" \notin DOMAIN scorers)
        /\ ~last.ret.raised =>
               /\ "calculator" \in DOMAIN scorers
               /\ scorers.calculator.weights = config.scoring_weights
               /\ scorers.calculator.tiers = config.tier_thresholds
               /\ scorers.calculator.tier_defs = config.tier_definitions

\* The three sections are present, one of them empty, and the constructor
\* raised
C15_Witness ==
    /\ ConstructorCalled("calculator")
    /\ SectionsRead("calculator") \subseteq DOMAIN config
    /\ DOMAIN config.tier_definitions = {}
    /\ last.ret.raised

\* C16: calculate_final_score never fails on a tier key without an entry in
\* tier_definitions: it then returns the name "Undefined Tier" and the
\* value "N/A"; otherwise it returns the name and the value of the selected
\* tier's definition.
C16_UndefinedTier ==
    Calculated =>
        /\ ~last.ret.raised
        /\ last.ret.tier_key \notin DOMAIN config.tier_definitions =>
               /\ last.ret.tier_name = "Undefined Tier"
               /\ last.ret.estimated_value = "N/A"
        /\ last.ret.tier_key \in DOMAIN config.tier_definitions =>
               LET definition == config.tier_definitions[last.ret.tier_key]
               IN /\ "name" \in DOMAIN definition => last.ret.tier_name = definition.name
                  /\ "value" \in DOMAIN definition =>
                         last.ret.estimated_value = definition.value

\* A hot lead under tier definitions that define other tiers and not hot
C16_Witness ==
    /\ Calculated
    /\ last.ret.tier_key = "hot"
    /\ "hot" \notin DOMAIN config.tier_definitions
    /\ "warm" \in DOMAIN config.tier_definitions
    /\ last.ret.tier_name = "Undefined Tier"
    /\ last.ret.estimated_value = "N/A"

(***************************************************************************)
(* Properties of every scorer call (Spec)                                  *)
(***************************************************************************)
\* The method called and the arguments it was given
Inputs(call) == [f \in DOMAIN call \ {"ret", "scraped_data"} |-> call[f]]

\* What the scraper returned to the call, if it was asked
Fetched(call) == Get(call, "scraped_data", NoData)

TierRank(tier) ==
    CASE tier = "low" -> 0
      [] tier = "cold" -> 1
      [] tier = "warm" -> 2
      [] tier = "hot" -> 3

\* hot >= warm >= cold, each the threshold its tier is compared against
ThresholdsOrdered ==
    Threshold("hot") >= Threshold("warm") /\ Threshold("warm") >= Threshold("cold")

\* C25: calculate_final_score is monotone in the total when the thresholds
\* are ordered: under every configuration with hot >= warm >= cold, a call
\* whose total is no lower than the total of the call before it selects the
\* same tier or a higher one in the order low < cold < warm < hot.
C25_TierMonotone ==
    [][(/\ Calculated
        /\ last'.op = "calculate_final_score"
        /\ ThresholdsOrdered
        /\ last.ret.total <= last'.ret.total) =>
           TierRank(last.ret.tier_key) <= TierRank(last'.ret.tier_key)]_vars

\* Three distinct ordered thresholds and a total at the cold threshold: a
\* cold lead, lower totals being low and higher ones cold, warm or hot
C25_Witness ==
    /\ Calculated
    /\ DOMAIN config.tier_thresholds = TierKeys
    /\ ThresholdsOrdered
    /\ config.tier_thresholds.hot > config.tier_thresholds.warm
    /\ config.tier_thresholds.warm > config.tier_thresholds.cold
    /\ last.ret.total = config.tier_thresholds.cold
    /\ last.ret.tier_key = "cold"

(***************************************************************************)
(* EngagementScorer composed with FreeScraper (SpecEngagement)             *)
(***************************************************************************)
\* C27: whenever scrape_google_maps_data returns its defaults (review_count
\* 0, average_rating 0.0), as it does when the driver is unavailable or the
\* URL does not contain "maps.google.com" and may do when the page fetch
\* fails, a lead with a non-empty maps URL string gets the score
\* moderate_reviews and a lead with an empty maps URL string gets the score
\* no_reviews; needs_review_campaign is true in both cases.
C27_ScraperDefaults ==
    (Analyzed /\ IsStr(last.gmaps_url)) =>
        /\ (~driver \/ ~Contains(last.gmaps_url.s, MapsHost)) =>
               (last.scraped_data = MapsDefaults /\ last.gmaps_url \notin driver_requests)
        /\ last.scraped_data = MapsDefaults =>
               /\ last.ret.score =
                      IF last.gmaps_url = Str(<<>>)
                      THEN config.review_opportunity_scoring.no_reviews
                      ELSE config.review_opportunity_scoring.moderate_reviews
               /\ last.ret.opportunities.needs_review_campaign

\* Without a driver, a Google Maps URL is scored moderate_reviews
C27_Witness ==
    /\ Analyzed
    /\ ~driver
    /\ IsStr(last.gmaps_url)
    /\ Contains(last.gmaps_url.s, MapsHost)
    /\ last.scraped_data = MapsDefaults
    /\ last.ret.score = config.review_opportunity_scoring.moderate_reviews
    /\ last.ret.score # config.review_opportunity_scoring.no_reviews
    /\ last.ret.opportunities.needs_review_campaign

(***************************************************************************)
(* Properties of DigitalPresenceScorer.analyze_social_presence (SpecSocial)*)
(***************************************************************************)
SocialAnalyzed == last.op = "analyze_social_presence"

\* The profile URLs supplied to the last call, with what their requests did
SuppliedProfiles ==
    {p \in {<<last.instagram_url, last.instagram_response, "instagram">>,
            <<last.facebook_url, last.facebook_response, "facebook">>} :
         p[1] # None /\ p[1] # Str(<<>>)}

\* The supplied profiles that answered 200 with a page that does not say
\* "not found"
ReachableProfiles ==
    {p \in SuppliedProfiles :
         /\ ~p[2].raised
         /\ p[2].status_code = 200
         /\ ~p[2].not_found}

\* C21: the score is 3 times the number of supplied profile URLs that are
\* reachable; inactive_social is true exactly when at least one supplied
\* URL is unreachable; needs_social_management is true exactly when no
\* profile URL is supplied or the score is below 3.
C21_SocialPresence ==
    SocialAnalyzed =>
        /\ ~last.ret.raised
        /\ last.ret.score = 3 * Cardinality(ReachableProfiles)
        /\ last.ret.opportunities.inactive_social
               <=> (SuppliedProfiles \ ReachableProfiles # {})
        /\ last.ret.opportunities.needs_social_management
               <=> (SuppliedProfiles = {} \/ last.ret.score < 3)

\* One reachable profile and one whose page says "not found": 3 points,
\* inactive_social, no management needed
C21_Witness ==
    /\ SocialAnalyzed
    /\ Cardinality(SuppliedProfiles) = 2
    /\ Cardinality(ReachableProfiles) = 1
    /\ \E p \in SuppliedProfiles : ~p[2].raised /\ p[2].status_code = 200 /\ p[2].not_found
    /\ last.ret.score = 3
    /\ last.ret.opportunities.inactive_social
    /\ ~last.ret.opportunities.needs_social_management

(***************************************************************************)
(* Properties of DatabaseManager.save_leads_dataframe (SpecDatabase)       *)
(***************************************************************************)
Saved == last.op = "save_leads_dataframe"

\* The table holds at most one row per Email
OneRowPerEmail ==
    \A i \in DOMAIN scored_leads, j \in DOMAIN scored_leads :
        scored_leads[i].Email = scored_leads[j].Email => i = j

\* A stored row is never changed, replaced or removed by a save
StoredRowsKept ==
    /\ Len(scored_leads') >= Len(scored_leads)
    /\ \A i \in DOMAIN scored_leads : scored_leads'[i] = scored_leads[i]

\* This step saves the DataFrame the previous step saved
SameFrameAgain ==
    /\ Saved
    /\ last'.op = "save_leads_dataframe"
    /\ last'.leads_df = last.leads_df

Finished == run.pc \in {"returned", "raised"}

Returned == run.pc = "returned"

\* The loaded rows whose email passed validation
ValidLoaded ==
    {i \in DOMAIN run.loaded :
         /\ run.loaded[i].email \notin {None, NaN, Str(<<>>)}
         /\ run.deliverable[i]}

\* The returned rows are the loaded rows with a valid email, one for one
OneRowPerValidLead ==
    \E row_of \in [DOMAIN run.results_df -> ValidLoaded] :
        /\ \A i \in ValidLoaded : \E k \in DOMAIN run.results_df : row_of[k] = i
        /\ \A k \in DOMAIN run.results_df, l \in DOMAIN run.results_df :
               row_of[k] = row_of[l] => k = l
        /\ \A k \in DOMAIN run.results_df :
               /\ run.results_df[k].Email = run.loaded[row_of[k]].email
               /\ run.results_df[k].BusinessName = run.loaded[row_of[k]].businessname

\* No returned row precedes a row with a strictly higher TotalScore
NoHigherScoreLater ==
    \A k \in DOMAIN run.results_df, l \in DOMAIN run.results_df :
        k < l => ~(run.results_df[k].TotalScore < run.results_df[l].TotalScore)

\* C23: a process_leads call returns exactly one output row per input row
\* whose email passes validation, none for a row with an invalid email, and
\* the returned rows are ordered by TotalScore descending.
C23_OneSortedRowPerValidLead ==
    Finished => (Returned /\ OneRowPerValidLead /\ NoHigherScoreLater)

\* What holds of the calls that do return
C23_WhenReturned == Returned => (OneRowPerValidLead /\ NoHigherScoreLater)

\* A call that returned two rows of different TotalScore and dropped none
C23_ReturnedTwo ==
    /\ Returned
    /\ Len(run.results_df) = 2
    /\ run.results_df[1].TotalScore > run.results_df[2].TotalScore

\* A write to the database or to the CSV file
Persisting == scored_leads' # scored_leads \/ output_csv' # output_csv

\* C26: process_leads persists only after every lead of the batch has been
\* scored: no row is written to the database or the CSV before the last lead
\* is scored, and when scoring a lead raises nothing of the batch is
\* written, then or later.
C26_PersistsAfterScoring ==
    [][/\ Persisting =>
              /\ run.pc \in {"sorted", "saved"}
              /\ Len(run.results_df) = Len(run.df)
       /\ (run.pc = "scoring" /\ run'.pc = "raised") => ~Persisting
       /\ run.pc = "raised" => ~Persisting]_vars

\* Scoring raised on the second lead of a batch whose first lead was scored:
\* neither the database nor the CSV file holds a row
C26_Witness ==
    /\ run.pc = "raised"
    /\ run.at = "score"
    /\ Len(run.scored) = 1
    /\ scored_leads = <<>>
    /\ output_csv = NoFile

====
